---- MODULE Spec2Model ----
(***************************************************************************)
(* nitro: tmux sessions via zoxide.  A model of the line parser            *)
(* (connect.rs), the connector (connect.rs, main.rs), the list composer    *)
(* (list.rs, main.rs) and the tmux / zoxide adapters (tmux.rs, zoxide.rs). *)
(*                                                                         *)
(* A Rust String is a sequence of characters; a character is a one-element *)
(* TLA+ string, except the two icon glyphs and ESC, which are named.       *)
(* The text a command prints is modelled by the sequence of its lines      *)
(* (what str::lines() yields).                                             *)
(***************************************************************************)
EXTENDS Integers, Sequences, FiniteSets, TLC

VARIABLES
    op,      \* the entry point that ran last ("init" before any ran)
    args,    \* its arguments
    sh,      \* what the Shell answers during the run (the scripted double)
    cmds,    \* the commands issued through the Shell, in order
    ret      \* what the entry point returned

vars == <<op, args, sh, cmds, ret>>

-----------------------------------------------------------------------------
(* Bounds of the model *)

MaxTokens == 3   \* tokens on one connect line
MaxLen == 4      \* characters of a string given to normalize_name
MaxItems == 3    \* lines printed by zoxide query -l
MaxLimit == 2    \* largest value given to -z

-----------------------------------------------------------------------------
(* Characters *)

ICON_TMUX == "U+EBC8"
ICON_ZOX == "U+F114"
ESC == "U+001B"

\* char::is_whitespace
IsWhitespace(c) == c \in {" ", "\t"}

\* the code point, which orders chars as String's Ord does
CharCode(c) ==
    CASE c = "\t" -> 9
      [] c = ESC -> 27
      [] c = " " -> 32
      [] c = "#" -> 35
      [] c = "-" -> 45
      [] c = "." -> 46
      [] c = "/" -> 47
      [] c = "0" -> 48
      [] c = "3" -> 51
      [] c = "4" -> 52
      [] c = "5" -> 53
      [] c = ":" -> 58
      [] c = "[" -> 91
      [] c = "]" -> 93
      [] c = "a" -> 97
      [] c = "b" -> 98
      [] c = "c" -> 99
      [] c = "m" -> 109
      [] c = "t" -> 116
      [] c = "z" -> 122
      [] c = ICON_TMUX -> 60360
      [] c = ICON_ZOX -> 61716

-----------------------------------------------------------------------------
(* Option<T> *)

None == [some |-> FALSE, v |-> <<>>]
Some(x) == [some |-> TRUE, v |-> x]

\* Option<usize>::None and Option<Option<usize>>::None
NoLimit == [some |-> FALSE, v |-> 0]
NoFlag == [some |-> FALSE, v |-> NoLimit]

-----------------------------------------------------------------------------
(* std string operations, as the code uses them *)

RECURSIVE Join(_, _)
\* [String]::join(sep)
Join(ss, sep) ==
    IF ss = <<>> THEN <<>>
    ELSE IF Len(ss) = 1 THEN ss[1]
    ELSE ss[1] \o sep \o Join(Tail(ss), sep)

RECURSIVE TrimStart(_)
TrimStart(s) ==
    IF s # <<>> /\ IsWhitespace(s[1]) THEN TrimStart(Tail(s)) ELSE s

RECURSIVE TrimEnd(_)
TrimEnd(s) ==
    IF s # <<>> /\ IsWhitespace(s[Len(s)])
    THEN TrimEnd(SubSeq(s, 1, Len(s) - 1))
    ELSE s

\* str::trim
Trim(s) == TrimEnd(TrimStart(s))

RECURSIVE TrimStartMatches(_, _)
TrimStartMatches(s, c) ==
    IF s # <<>> /\ s[1] = c THEN TrimStartMatches(Tail(s), c) ELSE s

RECURSIVE TrimEndMatches(_, _)
TrimEndMatches(s, c) ==
    IF s # <<>> /\ s[Len(s)] = c
    THEN TrimEndMatches(SubSeq(s, 1, Len(s) - 1), c)
    ELSE s

\* str::trim_matches(char)
TrimMatches(s, c) == TrimEndMatches(TrimStartMatches(s, c), c)

\* str::find(char): the first index (from 1), 0 when absent
Find(s, c) ==
    IF \E i \in 1..Len(s) : s[i] = c
    THEN CHOOSE i \in 1..Len(s) : s[i] = c /\ \A j \in 1..(i - 1) : s[j] # c
    ELSE 0

\* str::starts_with(&str)
StartsWith(s, p) == Len(s) >= Len(p) /\ SubSeq(s, 1, Len(p)) = p

\* str::strip_prefix(&str)
StripPrefix(s, p) ==
    IF StartsWith(s, p) THEN Some(SubSeq(s, Len(p) + 1, Len(s))) ELSE None

RECURSIVE SplitLoop(_, _, _, _)
SplitLoop(s, i, cur, acc) ==
    IF i > Len(s) THEN (IF cur = <<>> THEN acc ELSE Append(acc, cur))
    ELSE IF IsWhitespace(s[i])
         THEN SplitLoop(s, i + 1, <<>>, IF cur = <<>> THEN acc ELSE Append(acc, cur))
         ELSE SplitLoop(s, i + 1, Append(cur, s[i]), acc)

\* str::split_whitespace().collect()
SplitWhitespace(s) == SplitLoop(s, 1, <<>>, <<>>)

RECURSIVE SplitOn(_, _, _, _)
\* str::split(char): the pieces between the separators, empty ones kept
SplitOn(s, c, cur, acc) ==
    IF s = <<>> THEN Append(acc, cur)
    ELSE IF s[1] = c THEN SplitOn(Tail(s), c, <<>>, Append(acc, cur))
    ELSE SplitOn(Tail(s), c, Append(cur, s[1]), acc)

RECURSIVE SelectComponents(_)
\* Path::components, the root left out: empty pieces and "." are skipped
SelectComponents(pieces) ==
    IF pieces = <<>> THEN <<>>
    ELSE IF pieces[1] = <<>> \/ pieces[1] = <<".">>
         THEN SelectComponents(Tail(pieces))
         ELSE <<pieces[1]>> \o SelectComponents(Tail(pieces))

\* Path::file_name: the last component when it is a normal one; None for the
\* root, for the empty path and for a path ending in ".."
FileName(p) ==
    LET comps == SelectComponents(SplitOn(p, "/", <<>>, <<>>))
    IN  IF comps = <<>> THEN None
        ELSE IF comps[Len(comps)] = <<".", ".">> THEN None
        ELSE Some(comps[Len(comps)])

RECURSIVE StrLess(_, _)
\* String's Ord: lexicographic by character
StrLess(a, b) ==
    IF b = <<>> THEN FALSE
    ELSE IF a = <<>> THEN TRUE
    ELSE IF a[1] # b[1] THEN CharCode(a[1]) < CharCode(b[1])
    ELSE StrLess(Tail(a), Tail(b))

RECURSIVE InsertSorted(_, _)
InsertSorted(x, sorted) ==
    IF sorted = <<>> THEN <<x>>
    ELSE IF StrLess(x, sorted[1]) THEN <<x>> \o sorted
    ELSE <<sorted[1]>> \o InsertSorted(x, Tail(sorted))

RECURSIVE Sort(_)
\* Vec<String>::sort (stable; equal strings are indistinguishable)
Sort(v) ==
    IF v = <<>> THEN <<>>
    ELSE InsertSorted(v[Len(v)], Sort(SubSeq(v, 1, Len(v) - 1)))

-----------------------------------------------------------------------------
(* connect.rs: normalize_name *)

RECURSIVE NormalizeLoop(_, _, _)
\* the for loop of normalize_name over the characters of the trimmed string
NormalizeLoop(rest, out, last_dash) ==
    IF rest = <<>> THEN out
    ELSE LET ch == rest[1]
             c == IF ch \in {":", "#"} THEN "-"
                  ELSE IF IsWhitespace(ch) THEN " "
                  ELSE ch
         IN  IF IsWhitespace(c)
             THEN IF ~last_dash
                  THEN NormalizeLoop(Tail(rest), Append(out, "-"), TRUE)
                  ELSE NormalizeLoop(Tail(rest), out, last_dash)
             ELSE NormalizeLoop(Tail(rest), Append(out, c), FALSE)

\* a slip: the dashes are trimmed off the input, not off the output
normalize_name_TrimsInput(s) ==
    NormalizeLoop(TrimMatches(Trim(s), "-"), <<>>, FALSE)

normalize_name(s) ==
    TrimMatches(NormalizeLoop(Trim(s), <<>>, FALSE), "-")

-----------------------------------------------------------------------------
(* connect.rs: parse_connect_line *)

\* lines 21-29: the leading "[..]" is cut off, and one space after it
StripBracket(s) ==
    LET pos == Find(s, "]")
    IN  IF pos # 0 /\ StartsWith(s, <<"[">>) /\ (pos - 1) < Len(s)
        THEN LET after == SubSeq(s, pos + 1, Len(s))
                 stripped == StripPrefix(after, <<" ">>)
             IN  IF stripped.some THEN stripped.v ELSE after
        ELSE s

\* lines 30-39: a leading glyph with two spaces, else with one
StripIcon(s) ==
    IF StripPrefix(s, <<ICON_TMUX, " ", " ">>).some
    THEN StripPrefix(s, <<ICON_TMUX, " ", " ">>).v
    ELSE IF StripPrefix(s, <<ICON_ZOX, " ", " ">>).some
    THEN StripPrefix(s, <<ICON_ZOX, " ", " ">>).v
    ELSE IF StripPrefix(s, <<ICON_TMUX, " ">>).some
    THEN StripPrefix(s, <<ICON_TMUX, " ">>).v
    ELSE IF StripPrefix(s, <<ICON_ZOX, " ">>).some
    THEN StripPrefix(s, <<ICON_ZOX, " ">>).v
    ELSE s

\* a slip: the last part that starts with '/' is taken
SplitIdx_Last(parts) ==
    IF \E i \in 1..Len(parts) : parts[i][1] = "/"
    THEN CHOOSE i \in 1..Len(parts) :
             /\ parts[i][1] = "/"
             /\ \A j \in (i + 1)..Len(parts) : parts[j][1] # "/"
    ELSE 0

\* lines 43-49: the index of the first part that starts with '/', 0 if none
SplitIdx(parts) ==
    IF \E i \in 1..Len(parts) : parts[i][1] = "/"
    THEN CHOOSE i \in 1..Len(parts) :
             /\ parts[i][1] = "/"
             /\ \A j \in 1..(i - 1) : parts[j][1] # "/"
    ELSE 0

\* a slip: the fallback to the path's file name is left out
DeriveName_NoFallback(name_str, path_opt) == normalize_name(name_str)

\* lines 60-70: the name, taken from the path's file name when the
\* normalized name is empty
DeriveName(name_str, path_opt) ==
    LET name == normalize_name(name_str)
    IN  IF (name = <<>> \/ name = <<"-">>) /\ path_opt.some /\ FileName(path_opt.v).some
        THEN normalize_name(FileName(path_opt.v).v)
        ELSE name

\* The result carries the locals s, parts and name_str next to the fields
\* name and path of ParsedLine.
parse_connect_line(tokens) ==
    LET s0 == Trim(Join(tokens, <<" ">>))
        s == StripIcon(StripBracket(s0))
        parts == SplitWhitespace(s)
        i == SplitIdx(parts)
        name_str == IF i # 0 THEN Join(SubSeq(parts, 1, i - 1), <<" ">>) ELSE s
        path_opt == IF i # 0
                    THEN Some(Join(SubSeq(parts, i, Len(parts)), <<" ">>))
                    ELSE None
    IN  [name |-> DeriveName(name_str, path_opt),
         path |-> path_opt,
         s |-> s,
         parts |-> parts,
         name_str |-> name_str]

-----------------------------------------------------------------------------
(* Result<T> *)

Ok(x) == [ok |-> TRUE, v |-> x, err |-> ""]
Err(msg) == [ok |-> FALSE, v |-> <<>>, err |-> msg]

\* Result<bool>::Err
ErrBool(msg) == [ok |-> FALSE, v |-> FALSE, err |-> msg]

\* Result<String>::unwrap_or_default on a command's output
UnwrapOrDefault(r) == IF r.ok THEN r.v ELSE <<>>

-----------------------------------------------------------------------------
(* shell.rs: one call through the Shell trait *)

Cmd(method, program, sub, name, dir) ==
    [method |-> method, program |-> program, sub |-> sub, name |-> name, dir |-> dir]

\* run_tty is called in tmux.rs:73 and implemented by the test doubles only;
\* the Shell trait of shell.rs does not declare it.  By the specification it
\* runs the program on the caller's terminal, while run captures the output.
InheritsStdio(method) == method = "run_tty"

-----------------------------------------------------------------------------
(* tmux.rs *)

RECURSIVE TrimNonEmpty(_)
\* .map(|s| s.trim()).filter(|s| !s.is_empty())
TrimNonEmpty(lines) ==
    IF lines = <<>> THEN <<>>
    ELSE IF Trim(lines[1]) = <<>> THEN TrimNonEmpty(Tail(lines))
    ELSE <<Trim(lines[1])>> \o TrimNonEmpty(Tail(lines))

list_sessions(shell) == Ok(Sort(TrimNonEmpty(UnwrapOrDefault(shell.list_sessions))))

RECURSIVE AttachedNames(_)
\* lines 36-52: the names of the lines "1<TAB>name", trimmed, empty ones dropped
AttachedNames(lines) ==
    IF lines = <<>> THEN <<>>
    ELSE LET line == lines[1]
             tab == Find(line, "\t")
             n == IF tab = 0 THEN <<>> ELSE Trim(SubSeq(line, tab + 1, Len(line)))
         IN  IF tab # 0 /\ SubSeq(line, 1, tab - 1) = <<"1">> /\ n # <<>>
             THEN <<n>> \o AttachedNames(Tail(lines))
             ELSE AttachedNames(Tail(lines))

active_session(shell) ==
    LET disp == UnwrapOrDefault(shell.display_message)
        name == IF disp = <<>> THEN <<>> ELSE Trim(disp[1])
        attached == Sort(AttachedNames(UnwrapOrDefault(shell.list_attached)))
    IN  IF name # <<>> THEN Some(name)
        ELSE IF attached = <<>> THEN None
        ELSE Some(attached[1])

\* the commands active_session issues
active_session_cmds(shell) ==
    LET disp == UnwrapOrDefault(shell.display_message)
        name == IF disp = <<>> THEN <<>> ELSE Trim(disp[1])
    IN  <<Cmd("run", "tmux", "display-message", <<>>, <<>>)>>
        \o (IF name # <<>> THEN <<>>
            ELSE <<Cmd("run", "tmux", "list-sessions-attached", <<>>, <<>>)>>)

\* has_session(..).unwrap_or(false) as run_connect reads it
has_session(shell, name) == shell.has_session

create_session(shell, name, dir) ==
    [cmds |-> <<Cmd("run", "tmux", "new-session", name, dir)>>,
     result |-> IF shell.new_session_ok THEN Ok(<<>>) ELSE Err("tmux new-session failed")]

\* a slip: the TMUX test inverted (is_none for is_some)
attach_or_switch_Inverted(shell, name) ==
    IF ~shell.env_TMUX.some
    THEN [cmds |-> <<Cmd("run", "tmux", "switch-client", name, <<>>)>>,
          result |-> IF shell.switch_ok THEN Ok(<<>>) ELSE Err("tmux switch-client failed")]
    ELSE [cmds |-> <<Cmd("run_tty", "tmux", "attach", name, <<>>)>>,
          result |-> IF shell.attach_ok THEN Ok(<<>>) ELSE Err("tmux attach failed")]

attach_or_switch(shell, name) ==
    IF shell.env_TMUX.some
    THEN [cmds |-> <<Cmd("run", "tmux", "switch-client", name, <<>>)>>,
          result |-> IF shell.switch_ok THEN Ok(<<>>) ELSE Err("tmux switch-client failed")]
    ELSE [cmds |-> <<Cmd("run_tty", "tmux", "attach", name, <<>>)>>,
          result |-> IF shell.attach_ok THEN Ok(<<>>) ELSE Err("tmux attach failed")]

-----------------------------------------------------------------------------
(* zoxide.rs *)

\* list_all: the trimmed non-empty lines of zoxide query -l, in their order
list_all(shell) == Ok(TrimNonEmpty(UnwrapOrDefault(shell.zoxide_list)))

\* best_match_dir: the first line of zoxide query NAME, trimmed, if not empty
best_match_dir(shell, query) ==
    IF ~shell.zoxide_query.ok THEN None
    ELSE LET lines == shell.zoxide_query.v
         IN  IF lines = <<>> THEN None
             ELSE IF Trim(lines[1]) = <<>> THEN None
             ELSE Some(Trim(lines[1]))

-----------------------------------------------------------------------------
(* connect.rs: run_connect *)

\* a slip: the parsed path is asked before --dir
PickDir_PathFirst(shell, opts, name, path) ==
    IF path.some THEN path.v
    ELSE IF opts.dir.some THEN opts.dir.v
    ELSE IF best_match_dir(shell, name).some THEN best_match_dir(shell, name).v
    ELSE IF shell.home_dir.some THEN shell.home_dir.v
    ELSE <<".">>

\* lines 112-121: --dir > parsed path > zoxide best match > $HOME > "."
PickDir(shell, opts, name, path) ==
    IF opts.dir.some THEN opts.dir.v
    ELSE IF path.some THEN path.v
    ELSE IF best_match_dir(shell, name).some THEN best_match_dir(shell, name).v
    ELSE IF shell.home_dir.some THEN shell.home_dir.v
    ELSE <<".">>

\* the commands the choice of the directory issues
PickDirCmds(opts, name, path) ==
    IF opts.dir.some \/ path.some THEN <<>>
    ELSE <<Cmd("run", "zoxide", "query", name, <<>>)>>

\* a slip: the existence check is ignored
SessionExists_Never(shell, name) == FALSE

\* a slip: a failed existence query counts as "exists" (unwrap_or(true))
SessionExists_ErrMeansExists(shell, name) ==
    LET has == has_session(shell, name)
    IN  IF has.ok THEN has.v ELSE TRUE

\* lines 107-110: whether the session counts as existing
SessionExists(shell, name) ==
    LET has == has_session(shell, name)
    IN  IF has.ok THEN has.v ELSE FALSE

\* a slip: the empty name is let through
NameIsEmpty_Never(name) == FALSE

\* line 103
NameIsEmpty(name) == name = <<>>

\* a slip: the result of create_session dropped (no ?), the attach follows
\* a failed creation
CreateThenAttach_IgnoresFailure(c, a) ==
    [cmds |-> c.cmds \o a.cmds, result |-> a.result]

\* lines 123-125: create_session(..)?; attach_or_switch(..)?; Ok(()), with c
\* and a what the two calls do when they are made
CreateThenAttach(c, a) ==
    IF ~c.result.ok
    THEN [cmds |-> c.cmds, result |-> c.result]
    ELSE [cmds |-> c.cmds \o a.cmds, result |-> a.result]

run_connect(shell, opts) ==
    LET parsed == parse_connect_line(opts.tokens)
        name == parsed.name
        path == parsed.path
        query == <<Cmd("run_status", "tmux", "has-session", name, <<>>)>>
    IN  IF NameIsEmpty(name)
        THEN [cmds |-> <<>>, result |-> Err("empty session name")]
        ELSE IF SessionExists(shell, name)
        THEN LET a == attach_or_switch(shell, name)
             IN  [cmds |-> query \o a.cmds, result |-> a.result]
        ELSE LET dir == PickDir(shell, opts, name, path)
                 pick == PickDirCmds(opts, name, path)
                 c == create_session(shell, name, dir)
                 a == attach_or_switch(shell, name)
                 both == CreateThenAttach(c, a)
             IN  [cmds |-> query \o pick \o both.cmds, result |-> both.result]

-----------------------------------------------------------------------------
(* list.rs *)

COLOR_TMUX == <<ESC, "[", "3", "5", "m">>
COLOR_ZOX == <<ESC, "[", "3", "4", "m">>
COLOR_RESET == <<ESC, "[", "0", "m">>

colorize(enabled, color, s) == IF enabled THEN color \o s \o COLOR_RESET ELSE s

\* lines 52-58: the line of one session
SessionLine(opts, s) ==
    IF opts.icons
    THEN colorize(~opts.no_color, COLOR_TMUX, <<ICON_TMUX>>) \o <<" ">> \o s
    ELSE colorize(~opts.no_color, COLOR_TMUX, <<"[", "t", "]">>) \o <<" ">> \o s

\* lines 79-85: the line of one zoxide item
ZoxideLine(opts, path) ==
    IF opts.icons
    THEN colorize(~opts.no_color, COLOR_ZOX, <<ICON_ZOX>>) \o <<" ">> \o path
    ELSE colorize(~opts.no_color, COLOR_ZOX, <<"[", "z", "]">>) \o <<" ">> \o path

\* Vec::iter().position(|s| s == x): the first index (from 1), 0 when absent
Position(v, x) ==
    IF \E i \in 1..Len(v) : v[i] = x
    THEN CHOOSE i \in 1..Len(v) : v[i] = x /\ \A j \in 1..(i - 1) : v[j] # x
    ELSE 0

\* a slip: the active session is not moved
Promote_Never(sessions, active) == sessions

\* lines 44-49: the active session is moved to the front
Promote(sessions, active) ==
    IF active.some /\ Position(sessions, active.v) # 0
    THEN LET i == Position(sessions, active.v)
         IN  <<sessions[i]>> \o SubSeq(sessions, 1, i - 1)
                 \o SubSeq(sessions, i + 1, Len(sessions))
    ELSE sessions

\* a slip: the limit is not applied
Truncate_Never(items, z_limit) == items

\* lines 65-67: Vec::truncate(n) when a limit is given
Truncate(items, z_limit) ==
    IF z_limit.some /\ z_limit.v < Len(items)
    THEN SubSeq(items, 1, z_limit.v)
    ELSE items

\* lines 70-75: the would-be session name of a zoxide item
ZName(path) == normalize_name(IF FileName(path).some THEN FileName(path).v ELSE <<>>)

RECURSIVE ZoxideLoop_NoSkip(_, _, _)
\* a slip: no zoxide item is skipped
ZoxideLoop_NoSkip(opts, items, tmux_names) ==
    IF items = <<>> THEN <<>>
    ELSE <<ZoxideLine(opts, items[1])>> \o ZoxideLoop_NoSkip(opts, Tail(items), tmux_names)

RECURSIVE ZoxideLoop(_, _, _)
\* lines 68-86: the for loop over the zoxide items
ZoxideLoop(opts, items, tmux_names) ==
    IF items = <<>> THEN <<>>
    ELSE IF ZName(items[1]) \in tmux_names
         THEN ZoxideLoop(opts, Tail(items), tmux_names)
         ELSE <<ZoxideLine(opts, items[1])>> \o ZoxideLoop(opts, Tail(items), tmux_names)

\* The result carries the locals sessions, tmux_names and items next to the
\* lines returned.
build_list_lines(shell, opts) ==
    LET sessions == IF opts.include_tmux
                    THEN Promote(list_sessions(shell).v, active_session(shell))
                    ELSE <<>>
        tmux_names == {normalize_name(sessions[i]) : i \in 1..Len(sessions)}
        items == IF opts.include_zox
                 THEN Truncate(list_all(shell).v, opts.z_limit)
                 ELSE <<>>
    IN  [lines |-> [i \in 1..Len(sessions) |-> SessionLine(opts, sessions[i])]
                       \o ZoxideLoop(opts, items, tmux_names),
         sessions |-> sessions,
         tmux_names |-> tmux_names,
         items |-> items]

\* the commands build_list_lines issues
build_list_cmds(shell, opts) ==
    (IF opts.include_tmux
     THEN <<Cmd("run", "tmux", "list-sessions", <<>>, <<>>)>> \o active_session_cmds(shell)
     ELSE <<>>)
    \o (IF opts.include_zox
        THEN <<Cmd("run", "zoxide", "query-l", <<>>, <<>>)>>
        ELSE <<>>)

-----------------------------------------------------------------------------
(* main.rs *)

\* a slip: -z switches the sessions off even when -t is given
list_options_from_flags_ZWins(tmux, zoxide, icons, no_color) ==
    [include_tmux |-> ~zoxide.some,
     include_zox |-> IF zoxide.some THEN TRUE ELSE ~tmux,
     z_limit |-> IF zoxide.some THEN zoxide.v ELSE NoLimit,
     icons |-> icons,
     no_color |-> no_color]

list_options_from_flags(tmux, zoxide, icons, no_color) ==
    [include_tmux |-> IF tmux THEN TRUE ELSE ~zoxide.some,
     include_zox |-> IF zoxide.some THEN TRUE ELSE ~tmux,
     z_limit |-> IF zoxide.some THEN zoxide.v ELSE NoLimit,
     icons |-> icons,
     no_color |-> no_color]

\* a slip: the guard of the second arm dropped, --no-fail has no effect
ConnectExit_NoFailIgnored(result, no_fail) ==
    IF result.ok THEN [code |-> 0, stderr |-> ""]
    ELSE [code |-> 1, stderr |-> result.err]

\* main, lines 29-47: what the process exits with after run_connect
ConnectExit(result, no_fail) ==
    IF result.ok THEN [code |-> 0, stderr |-> ""]
    ELSE IF no_fail THEN [code |-> 0, stderr |-> result.err]
    ELSE [code |-> 1, stderr |-> result.err]

-----------------------------------------------------------------------------
(* The inputs *)

\* the characters normalize_name is tried on
NameChars == {"a", "b", " ", "\t", ":", "#", "-"}

RECURSIVE SeqsUpTo(_, _)
\* the sequences over S of length at most n
SeqsUpTo(S, n) ==
    IF n = 0 THEN {<<>>}
    ELSE LET shorter == SeqsUpTo(S, n - 1)
         IN  shorter \cup {Append(q, x) : q \in {r \in shorter : Len(r) = n - 1}, x \in S}

\* the tokens parse_connect_line is tried on
ParseTokens ==
    { <<"[", "t", "]">>, <<"[", "z", "]">>, <<ICON_TMUX>>, <<ICON_ZOX>>, <<" ">>,
      <<"a">>, <<"b", ":", "c">>, <<"-">>,
      <<"/", "a">>, <<"/", "a", "/", "b">>, <<"/">>, <<"/", "a", "/", ".", ".">>,
      <<"[", "a">>, <<"/", "b", "]">>, <<"[", "t", "]", "/", "c">> }

\* the lines connect is tried on
ConnectLines ==
    { << <<"a">> >>,
      << <<"[", "t", "]">>, <<"a">>, <<"b">> >>,
      << <<"[", "z", "]">>, <<"/", "a", "/", "b">> >>,
      << <<"a">>, <<"/", "b">> >>,
      << <<"-">> >>,
      << <<"/">> >> }

Dirs == {None, Some(<<"/", "c">>)}

HasSessionAnswers == {Ok(TRUE), Ok(FALSE), ErrBool("failed to spawn tmux")}

ZoxideQueryAnswers ==
    { Err("zoxide failed"),
      Ok(<<>>),
      Ok(<< <<"/", "z">> >>),
      Ok(<< <<>>, <<"/", "z">> >>),
      Ok(<< <<" ", "/", "z", " ">>, <<"/", "b">> >>) }

HomeDirs == {None, Some(<<"/", "h">>)}

EnvTMUX == {None, Some(<<"1">>), Some(<<>>)}

\* what tmux list-sessions -F #S prints
ListSessionsAnswers ==
    { Err("tmux failed"),
      Ok(<< <<"b">>, <<"a">> >>),
      Ok(<< <<"c">>, <<" ", "a", " ">>, <<>>, <<"b">> >>),
      Ok(<< <<"a", " ", "b">>, <<"a">> >>) }

\* what tmux display-message and the attached listing print
ActiveAnswers ==
    { [display_message |-> Err("tmux failed"), list_attached |-> Err("tmux failed")],
      [display_message |-> Ok(<< <<>> >>), list_attached |-> Err("tmux failed")],
      [display_message |-> Ok(<< <<>> >>),
       list_attached |-> Ok(<< <<"0", "\t", "a">>, <<"1", "\t", "c">>, <<"1", "\t", "b">> >>)],
      [display_message |-> Ok(<< <<" ", "b", " ">> >>), list_attached |-> Err("tmux failed")],
      [display_message |-> Ok(<< <<"c">> >>), list_attached |-> Err("tmux failed")],
      [display_message |-> Ok(<< <<"a", " ", "b">> >>), list_attached |-> Err("tmux failed")] }

\* the paths zoxide query -l prints
ZoxidePaths == { <<"/", "a">>, <<"/", "c", "/", "b">>, <<"/", "a", " ", "b">> }

ZoxideListAnswers == {Err("zoxide failed")} \cup {Ok(q) : q \in SeqsUpTo(ZoxidePaths, MaxItems)}

ZoxideFlags == {NoFlag, Some(NoLimit)} \cup {Some(Some(n)) : n \in 0..MaxLimit}

NoShell == [none |-> TRUE]

\* the shells connect is run in: what tmux and zoxide answer, the home
\* directory and the TMUX variable
ConnectShells ==
    { [has_session |-> has, zoxide_query |-> zq, home_dir |-> home, env_TMUX |-> env,
       new_session_ok |-> new_ok, switch_ok |-> go_ok, attach_ok |-> go_ok] :
          has \in HasSessionAnswers, zq \in ZoxideQueryAnswers, home \in HomeDirs,
          env \in EnvTMUX, new_ok \in BOOLEAN, go_ok \in BOOLEAN }

\* the shells list is run in
ListShells ==
    { [list_sessions |-> ls, display_message |-> act.display_message,
       list_attached |-> act.list_attached, zoxide_list |-> zl] :
          ls \in ListSessionsAnswers, act \in ActiveAnswers, zl \in ZoxideListAnswers }

IsConnectShell(shell) == "has_session" \in DOMAIN shell

IsListShell(shell) == "list_sessions" \in DOMAIN shell

-----------------------------------------------------------------------------
(* The entry points.  A run starts in a shell whose answers are fixed, as *)
(* the test doubles are built, takes one entry point and exits.           *)

Init ==
    /\ op = "init"
    /\ args = <<>>
    /\ sh \in {NoShell} \cup ConnectShells \cup ListShells
    /\ cmds = <<>>
    /\ ret = <<>>

\* connect.rs, normalize_name on a string
NormalizeName ==
    /\ op = "init"
    /\ sh = NoShell
    /\ \E s \in SeqsUpTo(NameChars, MaxLen) :
        /\ op' = "normalize_name"
        /\ args' = s
        /\ sh' = NoShell
        /\ cmds' = <<>>
        /\ ret' = normalize_name(s)

\* connect.rs, parse_connect_line on a token sequence
ParseConnectLine ==
    /\ op = "init"
    /\ sh = NoShell
    /\ \E tokens \in SeqsUpTo(ParseTokens, MaxTokens) :
        /\ op' = "parse_connect_line"
        /\ args' = tokens
        /\ sh' = NoShell
        /\ cmds' = <<>>
        /\ ret' = parse_connect_line(tokens)

\* main.rs, the connect command: run_connect and the exit
Connect ==
    /\ op = "init"
    /\ IsConnectShell(sh)
    /\ \E tokens \in ConnectLines, dir \in Dirs, no_fail \in BOOLEAN :
        \E run \in {run_connect(sh, [tokens |-> tokens, dir |-> dir])} :
            /\ op' = "connect"
            /\ args' = [tokens |-> tokens, dir |-> dir, no_fail |-> no_fail]
            /\ sh' = sh
            /\ cmds' = run.cmds
            /\ ret' = [result |-> run.result, exit |-> ConnectExit(run.result, no_fail)]

\* main.rs, the list command: list_options_from_flags and build_list_lines
List ==
    /\ op = "init"
    /\ IsListShell(sh)
    /\ \E tmux \in BOOLEAN, zoxide \in ZoxideFlags, icons \in BOOLEAN, no_color \in BOOLEAN :
        \E opts \in {list_options_from_flags(tmux, zoxide, icons, no_color)} :
        \E built \in {build_list_lines(sh, opts)} :
            /\ op' = "list"
            /\ args' = [tmux |-> tmux, zoxide |-> zoxide, icons |-> icons,
                        no_color |-> no_color]
            /\ sh' = sh
            /\ cmds' = build_list_cmds(sh, opts)
            /\ ret' = [opts |-> opts, lines |-> built.lines, sessions |-> built.sessions,
                       tmux_names |-> built.tmux_names, items |-> built.items]

\* what tmux has-session -t name answers while the sessions listed exist:
\* the exit status says whether a session has exactly that name; without a
\* tmux server the command fails
HasSessionAnswer(listing, name) ==
    IF ~listing.ok THEN ErrBool("tmux failed")
    ELSE Ok(\E k \in 1..Len(list_sessions([list_sessions |-> listing]).v) :
                list_sessions([list_sessions |-> listing]).v[k] = name)

\* main.rs, the list command and then the connect command on one of the
\* lines it printed (list, a picker, connect): the tokens are the line split
\* at whitespace, and tmux still has the sessions it listed.  sh becomes the
\* shell connect runs in.
ConnectListed ==
    /\ op = "init"
    /\ IsListShell(sh)
    /\ \E icons \in BOOLEAN, no_color \in BOOLEAN, env \in EnvTMUX :
        \E built \in {build_list_lines(sh, list_options_from_flags(FALSE, NoFlag, icons, no_color))} :
        \E i \in 1..Len(built.lines) :
        \E tokens \in {SplitWhitespace(built.lines[i])} :
        \E has \in {HasSessionAnswer(sh.list_sessions, parse_connect_line(tokens).name)} :
        \E shell \in {[has_session |-> has, zoxide_query |-> Err("zoxide failed"),
                       home_dir |-> None, env_TMUX |-> env, new_session_ok |-> TRUE,
                       switch_ok |-> TRUE, attach_ok |-> TRUE]} :
        \E run \in {run_connect(shell, [tokens |-> tokens, dir |-> None])} :
            /\ op' = "connect_listed"
            /\ args' = [tokens |-> tokens, dir |-> None, no_fail |-> FALSE,
                        no_color |-> no_color,
                        session |-> IF i <= Len(built.sessions)
                                    THEN Some(built.sessions[i]) ELSE None]
            /\ sh' = shell
            /\ cmds' = run.cmds
            /\ ret' = [result |-> run.result, exit |-> ConnectExit(run.result, FALSE)]

Next == NormalizeName \/ ParseConnectLine \/ Connect \/ List \/ ConnectListed

Spec == Init /\ [][Next]_vars

-----------------------------------------------------------------------------
(* The connector: what a run of connect was given, and what it issued *)

ConnectRan == op = "connect"

\* the session name the tokens of the run parse to
ParsedName == parse_connect_line(args.tokens).name

\* has_session reported the session as existing
ReportedExisting == sh.has_session.ok /\ sh.has_session.v

\* the positions in cmds of the commands with subcommand sub
Issued(sub) == {i \in 1..Len(cmds) : cmds[i].sub = sub}

AttachIssued == Issued("switch-client") \cup Issued("attach")

\* C1: when has_session reports that the parsed session name exists,
\* run_connect attaches or switches to that name and issues neither a
\* new-session command nor a zoxide query (no directory is chosen), whatever
\* the tokens and whether or not --dir is given.
C1_ExistingSessionNeverCreated ==
    (ConnectRan /\ ParsedName # <<>> /\ ReportedExisting) =>
        /\ Issued("new-session") = {}
        /\ Issued("query") = {}
        /\ Cardinality(AttachIssued) = 1
        /\ \A i \in AttachIssued : cmds[i].name = ParsedName

\* a session that exists is connected to with --dir given
C1_Witness ==
    /\ ConnectRan
    /\ ParsedName # <<>>
    /\ ReportedExisting
    /\ args.dir.some
    /\ AttachIssued # {}

\* the session has to be created: the name is not empty and has_session did
\* not report it
MustCreate == ConnectRan /\ ParsedName # <<>> /\ ~ReportedExisting

RECURSIVE FirstNonEmptyLine(_)
\* the first line that is not empty once trimmed, <<>> when there is none
FirstNonEmptyLine(lines) ==
    IF lines = <<>> THEN <<>>
    ELSE IF Trim(lines[1]) # <<>> THEN Trim(lines[1])
    ELSE FirstNonEmptyLine(Tail(lines))

\* the first line, trimmed, <<>> when there is none
FirstLine(lines) == IF lines = <<>> THEN <<>> ELSE Trim(lines[1])

\* the directory the priority chain gives, with `match` the frecency match
\* (<<>> when there is none)
DirByPriority(match) ==
    LET path == parse_connect_line(args.tokens).path
    IN  IF args.dir.some THEN args.dir.v
        ELSE IF path.some THEN path.v
        ELSE IF match # <<>> THEN match
        ELSE IF sh.home_dir.some THEN sh.home_dir.v
        ELSE <<".">>

\* the text of zoxide query NAME, nothing when the query failed
QueryLines == IF sh.zoxide_query.ok THEN sh.zoxide_query.v ELSE <<>>

\* C2 as stated: the session is created in the directory chosen by
\* --dir > parsed path > first non-empty line of the frecency query >
\* home > ".".
C2_AsStated ==
    MustCreate =>
        /\ Cardinality(Issued("new-session")) = 1
        /\ \A i \in Issued("new-session") :
               cmds[i].dir = DirByPriority(FirstNonEmptyLine(QueryLines))

\* C2, amended: the session is created in the directory chosen by
\* --dir > parsed path > the first line of the frecency query, trimmed, when
\* that line is not empty > home > ".".  A blank first line means no match,
\* whatever follows it.
C2_DirPriority ==
    MustCreate =>
        /\ Cardinality(Issued("new-session")) = 1
        /\ \A i \in Issued("new-session") :
               /\ cmds[i].name = ParsedName
               /\ cmds[i].dir = DirByPriority(FirstLine(QueryLines))

\* --dir is given, the line carries a path and the frecency query has a
\* match: the session is created at --dir
C2_Witness ==
    /\ MustCreate
    /\ args.dir.some
    /\ parse_connect_line(args.tokens).path.some
    /\ FirstLine(QueryLines) # <<>>
    /\ \E i \in Issued("new-session") : cmds[i].dir = args.dir.v

\* C3: when the tokens parse to the empty name, run_connect fails with
\* "empty session name" and issues no command at all.
C3_EmptyNameIssuesNothing ==
    (ConnectRan /\ ParsedName = <<>>) =>
        /\ ~ret.result.ok
        /\ ret.result.err = "empty session name"
        /\ cmds = <<>>

\* a line that is only a dash, or only the root, is refused
C3_Witness ==
    /\ ConnectRan
    /\ ParsedName = <<>>
    /\ ~ret.result.ok

-----------------------------------------------------------------------------
(* The line parser: what a run of parse_connect_line was given *)

ParseRan == op = "parse_connect_line"

\* the line the tokens make up
Line == Trim(Join(args, <<" ">>))

\* the tokens are whitespace-delimited: none is empty or holds whitespace
WhitespaceFree(tokens) ==
    \A i \in 1..Len(tokens) :
        /\ tokens[i] # <<>>
        /\ \A j \in 1..Len(tokens[i]) : ~IsWhitespace(tokens[i][j])

\* the line carries no bracketed marker, or one of the documented form: '[',
\* a non-empty tag, ']' and exactly one space
BracketAsDocumented(line) ==
    StartsWith(line, <<"[">>) =>
        LET pos == Find(line, "]")
        IN  /\ pos > 2
            /\ Len(line) > pos + 1
            /\ line[pos + 1] = " "
            /\ line[pos + 2] # " "

\* the indexes of the strings of v that start with '/'
SlashIndexes(v) == {i \in 1..Len(v) : v[i] # <<>> /\ v[i][1] = "/"}

Min(S) == CHOOSE x \in S : \A y \in S : x <= y

\* C4 as stated, for the tokens given to parse_connect_line: when a token
\* starts with '/', the path is the first such token and every later token
\* joined with single spaces; when none does, the path is absent.
C4_AsStated ==
    (ParseRan /\ WhitespaceFree(args) /\ BracketAsDocumented(Line)) =>
        IF SlashIndexes(args) # {}
        THEN ret.path = Some(Join(SubSeq(args, Min(SlashIndexes(args)), Len(args)), <<" ">>))
        ELSE ret.path = None

\* C4, amended: the tokens are those of the line that remains after marker
\* removal, split on whitespace.  When one of them starts with '/', the path
\* is the first such token and every later token joined with single spaces,
\* and the pre-normalization name is the tokens before it joined with single
\* spaces; when none does, the path is absent and the whole remainder is the
\* pre-normalization name.  The remainder is the end of the line, and the
\* whole line when it starts with neither '[' nor a glyph.
C4_FirstSlashToken ==
    ParseRan =>
        LET rest == SplitWhitespace(ret.s)
            first == Min(SlashIndexes(rest))
        IN  /\ \E k \in 1..(Len(Line) + 1) : ret.s = SubSeq(Line, k, Len(Line))
            /\ (Line = <<>> \/ Line[1] \notin {"[", ICON_TMUX, ICON_ZOX}) => ret.s = Line
            /\ IF SlashIndexes(rest) # {}
               THEN /\ ret.path = Some(Join(SubSeq(rest, first, Len(rest)), <<" ">>))
                    /\ ret.name_str = Join(SubSeq(rest, 1, first - 1), <<" ">>)
               ELSE /\ ret.path = None
                    /\ ret.name_str = ret.s

\* a marker, a name and a path of two tokens, the second starting with '/'
\* as well
C4_Witness ==
    /\ ParseRan
    /\ Len(args) = 3
    /\ ret.s # Line
    /\ ret.path.some
    /\ Cardinality(SlashIndexes(SplitWhitespace(ret.path.v))) = 2

\* the final component of a path, "" when it has none
FinalComponent(path) == IF FileName(path).some THEN FileName(path).v ELSE <<>>

\* C5: when a path was found and the pre-normalization name is empty or "-"
\* (or normalizes to the empty string), the name returned is the
\* normalization of the path's final component (the empty name when the path
\* is the root or ends in "..", which have none) and the path is returned as
\* found; so with a path the name comes from the tokens before the path or
\* from the path's final component.
C5_NameFromFinalComponent ==
    (ParseRan /\ ret.path.some) =>
        LET rest == SplitWhitespace(ret.s)
            found == Join(SubSeq(rest, Min(SlashIndexes(rest)), Len(rest)), <<" ">>)
            pre == Join(SubSeq(rest, 1, Min(SlashIndexes(rest)) - 1), <<" ">>)
        IN  /\ ret.path.v = found
            /\ (pre = <<>> \/ pre = <<"-">> \/ normalize_name(pre) = <<>>) =>
                   ret.name = normalize_name(FinalComponent(found))
            /\ normalize_name(pre) # <<>> => ret.name = normalize_name(pre)

\* a line with a path and nothing usable before it, named after the path
C5_Witness ==
    /\ ParseRan
    /\ ret.path.some
    /\ normalize_name(ret.name_str) = <<>>
    /\ ret.name # <<>>
    /\ ret.name = normalize_name(FinalComponent(ret.path.v))

\* C6: normalize_name is idempotent: normalizing what it returned gives the
\* same string again.
C6_NormalizeIdempotent ==
    op = "normalize_name" => normalize_name(ret) = ret

\* a string that normalization changes, with whitespace inside and a dash
\* to trim
C6_Witness ==
    /\ op = "normalize_name"
    /\ ret # args
    /\ ret # <<>>
    /\ \E i \in 1..Len(args) : IsWhitespace(args[i])
    /\ args[Len(args)] \in {":", "#", "-"}

-----------------------------------------------------------------------------
(* The list composer: what a run of list was given, and what it printed *)

ListRan == op = "list"

\* the session names tmux list-sessions printed
ListedSessions == TrimNonEmpty(UnwrapOrDefault(sh.list_sessions))

\* the paths zoxide query -l printed
RawItems == TrimNonEmpty(UnwrapOrDefault(sh.zoxide_list))

\* the number of session lines, which come first
NSessionLines == IF ret.opts.include_tmux THEN Len(ListedSessions) ELSE 0

\* the lines of the zoxide items, which follow the session lines
ZoxideLines == SubSeq(ret.lines, NSessionLines + 1, Len(ret.lines))

\* the first n elements of v
Take(v, n) == SubSeq(v, 1, IF n < Len(v) THEN n ELSE Len(v))

\* the raw items the limit leaves
WithinLimit == IF ret.opts.z_limit.some THEN Take(RawItems, ret.opts.z_limit.v) ELSE RawItems

\* the session names as listed, and normalized
ListedNames == {ListedSessions[i] : i \in 1..Len(ListedSessions)}
NormalizedNames == {normalize_name(ListedSessions[i]) : i \in 1..Len(ListedSessions)}

\* the would-be session name of a path: its final component, normalized
WouldBeName(path) == normalize_name(FinalComponent(path))

Emitted(path) == \E i \in 1..Len(ZoxideLines) : ZoxideLines[i] = ZoxideLine(ret.opts, path)

\* C7 as stated: with both sources listed, a frecency entry within the limit
\* is omitted exactly when its basename normalizes to the name of a listed
\* session.
C7_AsStated ==
    (ListRan /\ ret.opts.include_tmux /\ ret.opts.include_zox) =>
        \A i \in 1..Len(WithinLimit) :
            Emitted(WithinLimit[i]) <=> WouldBeName(WithinLimit[i]) \notin ListedNames

\* C7, amended: a frecency entry within the limit is omitted exactly when
\* sessions are listed and its basename normalizes to the same string as the
\* normalized name of a listed session; every other entry within the limit is
\* emitted.
C7_DuplicatesOmitted ==
    (ListRan /\ ret.opts.include_zox) =>
        \A i \in 1..Len(WithinLimit) :
            Emitted(WithinLimit[i]) <=>
                ~(ret.opts.include_tmux /\ WouldBeName(WithinLimit[i]) \in NormalizedNames)

\* both sources, one entry omitted for a session and another emitted
C7_Witness ==
    /\ ListRan
    /\ ret.opts.include_tmux
    /\ ret.opts.include_zox
    /\ \E i, j \in 1..Len(WithinLimit) :
           /\ ~Emitted(WithinLimit[i])
           /\ WouldBeName(WithinLimit[i]) \in NormalizedNames
           /\ Emitted(WithinLimit[j])

\* the session lines are those of the sessions in v, in that order
SessionLinesAre(v) ==
    /\ NSessionLines = Len(v)
    /\ \A i \in 1..Len(v) : ret.lines[i] = SessionLine(ret.opts, v[i])

\* v is in lexicographic order
Sorted(v) == \A i, j \in 1..Len(v) : i < j => ~StrLess(v[j], v[i])

\* x occurs in v as often as in w
SameCount(v, w, x) ==
    Cardinality({i \in 1..Len(v) : v[i] = x}) = Cardinality({i \in 1..Len(w) : w[i] = x})

\* the first session line is that of the active session, and the session
\* lines after it are the other listed sessions in lexicographic order
ActiveFirst(active) ==
    \E v \in {ret.sessions} :
        /\ SessionLinesAre(v)
        /\ v # <<>>
        /\ v[1] = active
        /\ Sorted(Tail(v))
        /\ \A x \in ListedNames : SameCount(v, ListedSessions, x)

\* C8 as stated: whenever sessions are included, some are listed and
\* active_session returns a name, the first session line is the active
\* session and the other session lines keep their lexicographic order.
C8_AsStated ==
    (ListRan /\ ret.opts.include_tmux /\ ListedSessions # <<>> /\ active_session(sh).some) =>
        ActiveFirst(active_session(sh).v)

\* C8, amended: whenever sessions are included and active_session returns a
\* name that is among the listed sessions, the first session line is that
\* session and the other session lines keep their lexicographic order.
C8_ActiveFirst ==
    (ListRan /\ ret.opts.include_tmux /\ active_session(sh).some
        /\ active_session(sh).v \in ListedNames) =>
        ActiveFirst(active_session(sh).v)

\* three sessions, the active one the last in lexicographic order
C8_Witness ==
    /\ ListRan
    /\ ret.opts.include_tmux
    /\ Len(ListedSessions) = 3
    /\ active_session(sh).some
    /\ active_session(sh).v \in ListedNames
    /\ \A x \in ListedNames : ~StrLess(active_session(sh).v, x)
    /\ ret.lines[1] = SessionLine(ret.opts, active_session(sh).v)

RECURSIVE NotDuplicates(_)
\* the paths of v that are no duplicate of a listed session, in their order
NotDuplicates(v) ==
    IF v = <<>> THEN <<>>
    ELSE IF ret.opts.include_tmux /\ WouldBeName(v[1]) \in NormalizedNames
         THEN NotDuplicates(Tail(v))
         ELSE <<v[1]>> \o NotDuplicates(Tail(v))

\* C9: with a frecency limit N the raw frecency sequence is cut to its first
\* N items before duplicates are filtered: the frecency lines are exactly
\* the items among the first N raw items that are no duplicate of a session,
\* in their order, and never more than N, even when fewer than N are left.
C9_LimitBeforeFilter ==
    (ListRan /\ ret.opts.include_zox /\ ret.opts.z_limit.some) =>
        LET n == ret.opts.z_limit.v
            kept == NotDuplicates(Take(RawItems, n))
        IN  /\ Len(ZoxideLines) = Len(kept)
            /\ Len(ZoxideLines) <= n
            /\ \A i \in 1..Len(kept) : ZoxideLines[i] = ZoxideLine(ret.opts, kept[i])

\* the limit cuts off an item that is no duplicate, and a duplicate among
\* the first N leaves fewer than N lines
C9_Witness ==
    /\ ListRan
    /\ ret.opts.include_zox
    /\ ret.opts.z_limit.some
    /\ Len(RawItems) > ret.opts.z_limit.v
    /\ NotDuplicates(RawItems) # NotDuplicates(Take(RawItems, ret.opts.z_limit.v))
    /\ Len(ZoxideLines) < ret.opts.z_limit.v
    /\ Len(ZoxideLines) > 0

\* C10: list_options_from_flags gives both sources without limit for no
\* flag, sessions only for -t, frecency only without limit for -z, frecency
\* only with limit N for -z N, both sources with the limit of -z for -t with
\* -z; icons and no_color are passed through.  A source that is not included
\* is not queried.
C10_FlagsToOptions ==
    ListRan =>
        LET o == ret.opts
        IN  /\ (~args.tmux /\ ~args.zoxide.some) =>
                   (o.include_tmux /\ o.include_zox /\ ~o.z_limit.some)
            /\ (args.tmux /\ ~args.zoxide.some) =>
                   (o.include_tmux /\ ~o.include_zox)
            /\ (~args.tmux /\ args.zoxide.some /\ ~args.zoxide.v.some) =>
                   (~o.include_tmux /\ o.include_zox /\ ~o.z_limit.some)
            /\ (~args.tmux /\ args.zoxide.some /\ args.zoxide.v.some) =>
                   (~o.include_tmux /\ o.include_zox /\ o.z_limit = Some(args.zoxide.v.v))
            /\ (args.tmux /\ args.zoxide.some) =>
                   (o.include_tmux /\ o.include_zox /\ o.z_limit = args.zoxide.v)
            /\ o.icons = args.icons
            /\ o.no_color = args.no_color
            /\ o.include_tmux <=> Issued("list-sessions") # {}
            /\ o.include_zox <=> Issued("query-l") # {}

\* -t together with -z 1: both sources, one frecency item at most
C10_Witness ==
    /\ ListRan
    /\ args.tmux
    /\ args.zoxide = Some(Some(1))
    /\ ret.opts.include_tmux
    /\ ret.opts.include_zox
    /\ ret.opts.z_limit = Some(1)

-----------------------------------------------------------------------------
(* Failing queries *)

\* the errors run_connect can return: the empty name and the failures of
\* the commands that change something
ConnectErrors ==
    {"empty session name", "tmux new-session failed",
     "tmux switch-client failed", "tmux attach failed"}

\* the lines of all the paths in v, none skipped
AllZoxideLines(v) == [i \in 1..Len(v) |-> ZoxideLine(ret.opts, v[i])]

\* C11: no failure of a query command (tmux list-sessions, tmux
\* display-message, zoxide query -l, zoxide query NAME, tmux has-session) is
\* propagated.  In connect a failed has-session counts as "does not exist"
\* (the session is created) and a failed frecency query as "no match" (home
\* or "." is used), and the error returned is never that of a query.  In the
\* list a failing source gives no lines and the lines of the other source
\* are those it gives alone.
C11_QueryFailuresAbsorbed ==
    /\ ConnectRan =>
           /\ (ParsedName # <<>> /\ ~sh.has_session.ok) =>
                  /\ Cardinality(Issued("new-session")) = 1
                  /\ Issued("has-session") # {}
           /\ (MustCreate /\ ~sh.zoxide_query.ok) =>
                  \A i \in Issued("new-session") : cmds[i].dir = DirByPriority(<<>>)
           /\ ~ret.result.ok => ret.result.err \in ConnectErrors
    /\ ListRan =>
           /\ (ret.opts.include_tmux /\ ~sh.list_sessions.ok) =>
                  ret.lines = (IF ret.opts.include_zox THEN AllZoxideLines(WithinLimit) ELSE <<>>)
           /\ (ret.opts.include_tmux /\ ret.opts.include_zox /\ ~sh.zoxide_list.ok) =>
                  /\ Len(ret.lines) = Len(ListedSessions)
                  /\ SessionLinesAre(ret.sessions)
           /\ (ret.opts.include_tmux /\ ~sh.display_message.ok /\ ~sh.list_attached.ok) =>
                  /\ SessionLinesAre(ret.sessions)
                  /\ Sorted(ret.sessions)
                  /\ \A x \in ListedNames : SameCount(ret.sessions, ListedSessions, x)

\* has-session and the frecency query both fail: the session is created in
\* the home directory and attached to
C11_Witness ==
    /\ ConnectRan
    /\ ParsedName # <<>>
    /\ ~sh.has_session.ok
    /\ ~sh.zoxide_query.ok
    /\ Issued("query") # {}
    /\ sh.home_dir.some
    /\ \E i \in Issued("new-session") : cmds[i].dir = sh.home_dir.v
    /\ ret.result.ok

-----------------------------------------------------------------------------
(* Attach or switch *)

\* run_connect reached its call of attach_or_switch: the name is not empty
\* and the session exists or was created
AttachCalled == ConnectRan /\ ParsedName # <<>> /\ (ReportedExisting \/ sh.new_session_ok)

\* C12: attach_or_switch issues exactly one command per call: tmux
\* switch-client, with captured output, when the TMUX variable is set
\* (to anything, the empty string included), and tmux attach on the caller's
\* terminal when it is not set; never attach while it is set, never
\* switch-client while it is not.  The command names the parsed session and
\* nothing is issued after it.
C12_OneCommandByTmuxEnv ==
    ConnectRan =>
        /\ Cardinality(AttachIssued) = (IF AttachCalled THEN 1 ELSE 0)
        /\ \A i \in AttachIssued :
               /\ i = Len(cmds)
               /\ cmds[i].program = "tmux"
               /\ cmds[i].name = ParsedName
               /\ IF sh.env_TMUX.some
                  THEN cmds[i].sub = "switch-client" /\ ~InheritsStdio(cmds[i].method)
                  ELSE cmds[i].sub = "attach" /\ InheritsStdio(cmds[i].method)

\* TMUX is set to the empty string and the session exists: switch-client is
\* the one command after has-session
C12_Witness ==
    /\ AttachCalled
    /\ sh.env_TMUX.some
    /\ sh.env_TMUX.v = <<>>
    /\ Len(cmds) = 2
    /\ cmds[2].sub = "switch-client"

-----------------------------------------------------------------------------
(* --no-fail *)

\* the command that attaches or switches succeeds
GoSucceeds == IF sh.env_TMUX.some THEN sh.switch_ok ELSE sh.attach_ok

\* why the run fails, "" when it does not: read from the tokens and from
\* what the shell answers
FailureOfRun ==
    IF ParsedName = <<>> THEN "empty session name"
    ELSE IF ~ReportedExisting /\ ~sh.new_session_ok THEN "tmux new-session failed"
    ELSE IF GoSucceeds THEN ""
    ELSE IF sh.env_TMUX.some THEN "tmux switch-client failed"
    ELSE "tmux attach failed"

\* C13: for connect, --no-fail turns any failure of run_connect (empty
\* name, failed creation, failed attach or switch) into exit code 0 with the
\* error written to the error stream; without --no-fail the failure is
\* propagated as a non-zero exit with the same error; a success exits 0 and
\* writes nothing, with or without --no-fail.
C13_NoFailExitsZero ==
    ConnectRan =>
        /\ ret.result.ok <=> FailureOfRun = ""
        /\ ret.exit.stderr = FailureOfRun
        /\ ret.exit.code = 0 <=> (FailureOfRun = "" \/ args.no_fail)

\* with --no-fail a session that cannot be created gives exit code 0 and
\* the error on the error stream
C13_Witness ==
    /\ ConnectRan
    /\ args.no_fail
    /\ FailureOfRun = "tmux new-session failed"
    /\ Issued("new-session") # {}
    /\ ret.exit.code = 0
    /\ ret.exit.stderr = "tmux new-session failed"

-----------------------------------------------------------------------------
(* From the list to connect *)

\* what parse_connect_line makes of line i of the list, split at whitespace
\* as a shell splits the arguments of connect
ParsedLine(i) == parse_connect_line(SplitWhitespace(ret.lines[i]))

\* line i of the list parses to the session it shows: its name normalized,
\* and no path
SessionRoundTrip(i) ==
    /\ ParsedLine(i).name = normalize_name(ret.sessions[i])
    /\ ~ParsedLine(i).path.some

\* line i of the list parses to the path it shows, named by the final
\* component, normalized
PathRoundTrip(i) ==
    \E k \in 1..Len(ret.items) :
        /\ ret.lines[i] = ZoxideLine(ret.opts, ret.items[k])
        /\ ParsedLine(i).path = Some(ret.items[k])
        /\ ParsedLine(i).name = WouldBeName(ret.items[k])

\* C14: round trip from the list to the parser.  For every line
\* build_list_lines emits, in the ASCII or the icon style, with colour or
\* without, parsing the line's whitespace-split tokens gives a name without
\* the marker (no tag, glyph or colour sequence): a session line gives the
\* normalized session name and no path, a frecency line gives the listed
\* path and its normalized final component as the name.
C14_RoundTrip ==
    ListRan =>
        \A i \in 1..Len(ret.lines) :
            IF i <= NSessionLines THEN SessionRoundTrip(i) ELSE PathRoundTrip(i)

-----------------------------------------------------------------------------
(* The marker that is stripped *)

\* the line starts with a bracketed marker as specified: '[', a tag that is
\* not empty, ']' and a space
HasBracketMarker(line) ==
    /\ StartsWith(line, <<"[">>)
    /\ Find(line, "]") > 2
    /\ Len(line) > Find(line, "]")
    /\ line[Find(line, "]") + 1] = " "

\* the line without its marker, as specified: the bracketed marker and its
\* one space, else a glyph and its two spaces or its one space, else nothing
StripAsSpecified(line) ==
    IF HasBracketMarker(line) THEN SubSeq(line, Find(line, "]") + 2, Len(line))
    ELSE IF StartsWith(line, <<ICON_TMUX, " ", " ">>) \/ StartsWith(line, <<ICON_ZOX, " ", " ">>)
    THEN SubSeq(line, 4, Len(line))
    ELSE IF StartsWith(line, <<ICON_TMUX, " ">>) \/ StartsWith(line, <<ICON_ZOX, " ">>)
    THEN SubSeq(line, 3, Len(line))
    ELSE line

\* C15: parse_connect_line strips at most one leading marker, as
\* specified.  A bracketed marker is removed only when the line starts with
\* '[', a non-empty tag, ']' and one space (a line such as "[t]" alone,
\* "[]  x" or "[t]x" is left as it is); a glyph marker, the glyph and one or
\* two spaces, is removed only when no bracketed marker was removed; what
\* follows the marker is left as it is.
C15_MarkerAsSpecified ==
    ParseRan => ret.s = StripAsSpecified(Line)

-----------------------------------------------------------------------------
(* Create, then attach *)

\* C16: when the parsed session does not exist, run_connect issues
\* new-session strictly before the attach or switch, each at most once.  If
\* new-session fails its error is returned and no attach or switch is
\* issued; if the attach or switch fails its error is returned, and it is
\* the last command: no retry and no second creation.
C16_CreateBeforeAttach ==
    MustCreate =>
        /\ Cardinality(Issued("new-session")) = 1
        /\ Cardinality(AttachIssued) <= 1
        /\ \A i \in Issued("new-session"), j \in AttachIssued : i < j
        /\ IF ~sh.new_session_ok
           THEN /\ AttachIssued = {}
                /\ cmds[Len(cmds)].sub = "new-session"
                /\ ret.result = Err("tmux new-session failed")
           ELSE /\ AttachIssued = {Len(cmds)}
                /\ Issued("new-session") = {Len(cmds) - 1}
                /\ ret.result.ok <=> GoSucceeds
                /\ ~GoSucceeds => ret.result.err \in {"tmux switch-client failed", "tmux attach failed"}

\* the session is created and the attach that follows fails
C16_Witness ==
    /\ MustCreate
    /\ sh.new_session_ok
    /\ ~GoSucceeds
    /\ Issued("new-session") # {}
    /\ AttachIssued # {}
    /\ ~ret.result.ok

-----------------------------------------------------------------------------
(* From the list to the session *)

\* connect ran on a session line of a list printed without colour
ListedSessionPicked == op = "connect_listed" /\ args.session.some /\ args.no_color

\* C17: list, then connect, resolves to the listed session.  For every
\* existing session s that build_list_lines emits as a session line, colour
\* disabled, run_connect on that line's whitespace-split tokens queries
\* has-session for exactly s, attaches or switches to s and creates no
\* session.
C17_ListedSessionResolved ==
    ListedSessionPicked =>
        /\ Issued("has-session") # {}
        /\ \A i \in Issued("has-session") : cmds[i].name = args.session.v
        /\ Issued("new-session") = {}
        /\ AttachIssued # {}
        /\ \A i \in AttachIssued : cmds[i].name = args.session.v

====
